---- MODULE Spec2Model ----
(***************************************************************************)
(* mergewarn: every participant runs one process with two loops.  The      *)
(* publish loop (waitForLocalChanges) polls the working-tree diff, and     *)
(* when the built []FileEdit differs from the last one it HSETs the JSON   *)
(* under the participant's key of the redis hash "mergewarnDiffs" and      *)
(* PUBLISHes on the channel "newChange".  The listen loop                  *)
(* (waitForServerChanges) receives from the subscription and on every      *)
(* message runs calculateConflicts and outputConflicts.                    *)
(***************************************************************************)
EXTENDS Integers, Sequences, FiniteSets, TLC

VARIABLES
    TestMode,       \* config.TestMode of each process
    workdir,        \* what parseDiff(buildDiff()) returns for each process now
    store,          \* the redis hash "mergewarnDiffs": key -> stored JSON value
    queue,          \* events waiting on each process's subscription
    listenPc,       \* position of waitForServerChanges
    pubPc,          \* position of waitForLocalChanges
    lastFileEdits,  \* local variable lastFileEdits of waitForLocalChanges
    fileEdits,      \* local variable fileEdits of waitForLocalChanges
    alive,          \* FALSE once the process was ended by a panic
    result,         \* fetchedConflicts of the last evaluation of each process
    evaluated,      \* whether calculateConflicts ran in this process
    notices,        \* what processAllDiffs (the older listener body) printed
    prevDiff,       \* history: the diff the previous publish cycle saw
    everPublished,  \* history: this process called sendAndNotifyChange
    attempt,        \* history: outcome of HSet and Publish of the last attempt
    lastRecv,       \* history: how the last pubsub.Receive of the listener ended
    fatal,          \* history: which panic or log.Fatal ended the process
    edits,          \* history: how many times a working tree changed
    faults,         \* whether redis and the diff provider may fail in this run
    ran,            \* history: calls of calculateConflicts in the last listen iteration
    emitted,        \* history: records outputConflicts wrote in the last listen iteration
    hadConflicts,   \* history: some evaluation of this process found conflicts
    readSince,      \* history: an evaluation read the hash after the last HSet of this process
    announces       \* history: for each waiting event, the publisher whose write it
                    \* announces is not in the hash (None when it is)

vars == <<TestMode, workdir, store, queue, listenPc, pubPc, lastFileEdits,
          fileEdits, alive, result, evaluated, notices, prevDiff,
          everPublished, attempt, lastRecv, fatal, edits, faults, ran, emitted,
          hadConflicts, readSince, announces>>

-----------------------------------------------------------------------------
(* Bounds and domains *)

\* longest subscription backlog the model lets build up
MaxQueue == 2

\* how many times the working trees change in one run
MaxEdits == 1

\* participants that run the program
Procs == {"alice", "bob"}

\* a key left in the hash by a participant that is not running
StaleKeys == {"carol"}

Keys == Procs \cup StaleKeys

Files == {"a.txt", "b.txt"}

Lines == {3, 7}

\* file -> set of changed lines; a file without changed lines is not in the diff
Mappings == [Files -> SUBSET Lines]

EmptyMapping == [f \in Files |-> {}]

\* the diffs the polling model moves between (one file)
PollMappings == {m \in Mappings : m["b.txt"] = {}}

None == "none"

\* stands for "no cycle of the publish loop has run": no diff lists line 0
NoDiffYet == [f \in Files |-> {0}]

\* stands for "the diff provider returned an error in the last cycle"
DiffFailed == [f \in Files |-> {-1}]

-----------------------------------------------------------------------------
(* Sequences helpers *)

\* all enumerations of the set S without repetition
Perms(S) ==
    {s \in [1..Cardinality(S) -> S] : \A i, j \in 1..Cardinality(S) : s[i] = s[j] => i = j}

Range(s) == {s[i] : i \in DOMAIN s}

-----------------------------------------------------------------------------
(* FileEdit values and the JSON stored in the hash *)

\* FileEdit{Filename, LineNumbers, User}
FileEdit(filename, lineNumbers, user) ==
    [Filename |-> filename, LineNumbers |-> lineNumbers, User |-> user]

\* a JSON number and a JSON string inside a "lineNumbers" array
Num(n) == [t |-> "num", v |-> n]

Str == [t |-> "str", v |-> 0]

\* a stored value that is not valid JSON
Garbage == [valid |-> FALSE, elems |-> <<>>]

\* parseDiff followed by the two range loops of buildLocalFileEdits: Go ranges
\* over a map in an unspecified order, so every enumeration of the files and,
\* for each file, of its lines is a possible return value.
BuildLocalFileEdits(m) ==
    LET present == {f \in Files : m[f] # {}}
        orders == {lo \in [present -> UNION {Perms(m[f]) : f \in present}] :
                      \A f \in present : lo[f] \in Perms(m[f])}
    IN  {[i \in 1..Len(fs) |-> FileEdit(fs[i], lo[fs[i]], "")] :
            fs \in Perms(present), lo \in orders}

\* json.Marshal of a []FileEdit
Marshal(fes) ==
    [valid |-> TRUE,
     elems |-> [i \in 1..Len(fes) |->
                  [filename    |-> fes[i].Filename,
                   lineNumbers |-> [j \in 1..Len(fes[i].LineNumbers) |->
                                       Num(fes[i].LineNumbers[j])],
                   user        |-> fes[i].User]]]

\* json.Unmarshal into a []FileEdit: invalid JSON is rejected before anything is
\* stored; a value of the wrong type inside valid JSON is skipped (the element
\* keeps its zero value), decoding goes on and the error is returned at the end.
Unmarshal(value) ==
    IF ~value.valid
    THEN [err |-> TRUE, val |-> <<>>]
    ELSE [err |-> \E i \in DOMAIN value.elems :
                     \E j \in DOMAIN value.elems[i].lineNumbers :
                        value.elems[i].lineNumbers[j].t # "num",
          val |-> [i \in 1..Len(value.elems) |->
                     FileEdit(value.elems[i].filename,
                              [j \in 1..Len(value.elems[i].lineNumbers) |->
                                  IF value.elems[i].lineNumbers[j].t = "num"
                                  THEN value.elems[i].lineNumbers[j].v
                                  ELSE 0],
                              value.elems[i].user)]]

\* reflect.DeepEqual on two []FileEdit: same length, and element by element the
\* same Filename, the same LineNumbers in the same order, the same User
DeepEqual(a, b) == a = b

-----------------------------------------------------------------------------
(* The evaluator *)

\* the test of line 403 without the comparison with the current user
ProcessesUserNoSelfCheck(user, currentUser, testMode) ==
    TRUE

\* the test of line 403
ProcessesUser(user, currentUser, testMode) ==
    user # currentUser \/ testMode

\* the loops of lines 418-425 without the comparison of line 420: every pair
\* of a local and an incoming line appends a record
LineConflictsAnyPair(localFileEdit, fileEdit, user) ==
    [k \in 1..(Len(localFileEdit.LineNumbers) * Len(fileEdit.LineNumbers)) |->
        [localFileEdit EXCEPT !.User = user]]

\* lines 418-425: the loops over a and b; every equal pair appends a copy of the
\* local FileEdit with User set
LineConflicts(localFileEdit, fileEdit, user) ==
    LET la == Len(localFileEdit.LineNumbers)
        lb == Len(fileEdit.LineNumbers)
        F[k \in 0..(la * lb)] ==
            IF k = 0 THEN <<>>
            ELSE LET a == ((k - 1) \div lb) + 1
                     b == ((k - 1) % lb) + 1
                 IN  IF localFileEdit.LineNumbers[a] = fileEdit.LineNumbers[b]
                     THEN Append(F[k - 1], [localFileEdit EXCEPT !.User = user])
                     ELSE F[k - 1]
    IN  F[la * lb]

\* lines 409-428: the loops over idx and localIdx
UserConflicts(incomingFileEdits, localFileEdits, user) ==
    LET ni == Len(incomingFileEdits)
        nl == Len(localFileEdits)
        F[k \in 0..(ni * nl)] ==
            IF k = 0 THEN <<>>
            ELSE LET idx == ((k - 1) \div nl) + 1
                     localIdx == ((k - 1) % nl) + 1
                 IN  IF localFileEdits[localIdx].Filename = incomingFileEdits[idx].Filename
                     THEN F[k - 1] \o LineConflicts(localFileEdits[localIdx],
                                                    incomingFileEdits[idx], user)
                     ELSE F[k - 1]
    IN  F[ni * nl]

\* calculateConflicts on the map HGetAllMap returned and the local edits built;
\* userOrder is the order in which the range over the map visits the keys
CalculateConflicts(diffUserMap, localFileEdits, userOrder, currentUser, testMode) ==
    LET F[k \in 0..Len(userOrder)] ==
            IF k = 0 THEN <<>>
            ELSE IF ProcessesUser(userOrder[k], currentUser, testMode)
                 THEN F[k - 1] \o UserConflicts(Unmarshal(diffUserMap[userOrder[k]]).val,
                                                localFileEdits, userOrder[k])
                 ELSE F[k - 1]
    IN  F[Len(userOrder)]

\* lines 173-180 of the older listener body: every equal pair prints one notice
\* with the peer, the file and the peer's line
LineNotices(localFileEdit, fileEdit, user) ==
    LET la == Len(localFileEdit.LineNumbers)
        lb == Len(fileEdit.LineNumbers)
        F[k \in 0..(la * lb)] ==
            IF k = 0 THEN <<>>
            ELSE LET a == ((k - 1) \div lb) + 1
                     b == ((k - 1) % lb) + 1
                 IN  IF localFileEdit.LineNumbers[a] = fileEdit.LineNumbers[b]
                     THEN Append(F[k - 1], [User |-> user,
                                            Filename |-> fileEdit.Filename,
                                            Line |-> fileEdit.LineNumbers[b]])
                     ELSE F[k - 1]
    IN  F[la * lb]

\* lines 164-183
UserNotices(incoming, localFileEdits, user) ==
    LET ni == Len(incoming)
        nl == Len(localFileEdits)
        F[k \in 0..(ni * nl)] ==
            IF k = 0 THEN <<>>
            ELSE LET idx == ((k - 1) \div nl) + 1
                     localIdx == ((k - 1) % nl) + 1
                 IN  IF localFileEdits[localIdx].Filename = incoming[idx].Filename
                     THEN F[k - 1] \o LineNotices(localFileEdits[localIdx],
                                                  incoming[idx], user)
                     ELSE F[k - 1]
    IN  F[ni * nl]

\* processAllDiffs: the notices printed, in order
ProcessAllDiffs(diffUserMap, localFileEdits, userOrder, currentUser) ==
    LET F[k \in 0..Len(userOrder)] ==
            IF k = 0 THEN <<>>
            ELSE IF userOrder[k] # currentUser
                 THEN F[k - 1] \o UserNotices(Unmarshal(diffUserMap[userOrder[k]]).val,
                                              localFileEdits, userOrder[k])
                 ELSE F[k - 1]
    IN  F[Len(userOrder)]

-----------------------------------------------------------------------------
(* The transport *)

\* a write that replaces the whole hash by the one field
HSetDroppingOthers(st, key, value) ==
    [k \in {key} |-> value]

\* redisClient.HSet("mergewarnDiffs", key, value) that reached the server
HSet(st, key, value) ==
    [k \in (DOMAIN st) \cup {key} |-> IF k = key THEN value ELSE st[k]]

\* the processes whose subscription to "newChange" is open
Subscribers == {q \in Procs : alive[q] /\ listenPc[q] = "receive"}

\* redisClient.Publish("newChange", "1") that reached the server: one message
\* for every open subscription
Deliver(qs) ==
    [q \in Procs |-> IF q \in Subscribers THEN Append(qs[q], "message") ELSE qs[q]]

\* the history of the notification Deliver hands out
Announce(as, by) ==
    [q \in Procs |-> IF q \in Subscribers THEN Append(as[q], by) ELSE as[q]]

\* the write of by has reached the hash: what its waiting notifications
\* announce is there now
Written(as, by) ==
    [q \in Procs |-> [i \in DOMAIN as[q] |-> IF as[q][i] = by THEN None ELSE as[q][i]]]

NoAttempt == [hset |-> None, publish |-> None]

\* how a call of redis or of the diff provider may end: TRUE is success
Outcomes == IF faults THEN BOOLEAN ELSE {TRUE}

\* allDiffs.Result() of lines 388-389: the hash, or the empty map when
\* HGetAllMap failed (the error is printed and the evaluation goes on)
HGetAllMap(st, ok) == IF ok THEN st ELSE <<>>

-----------------------------------------------------------------------------
(* Initial states *)

\* values an earlier run of a participant may have left in the hash
StaleValues ==
    {Marshal(<<FileEdit("a.txt", <<3>>, "")>>)}

\* the hash when the processes in started begin: each of their keys may hold
\* a value from an earlier run
InitStores(started) ==
    UNION {[K -> StaleValues] : K \in SUBSET started}

\* the processes in started are at the top of main's two loops; the other
\* participants run elsewhere and are seen only through the hash and the channel
InitLocal(started) ==
    /\ queue = [p \in Procs |-> <<>>]
    /\ listenPc = [p \in Procs |-> IF p \in started THEN "subscribe" ELSE "off"]
    /\ pubPc = [p \in Procs |-> IF p \in started THEN "build" ELSE "off"]
    /\ lastFileEdits = [p \in Procs |-> <<>>]
    /\ fileEdits = [p \in Procs |-> <<>>]
    /\ alive = [p \in Procs |-> p \in started]
    /\ result = [p \in Procs |-> <<>>]
    /\ evaluated = [p \in Procs |-> FALSE]
    /\ notices = [p \in Procs |-> <<>>]
    /\ prevDiff = [p \in Procs |-> NoDiffYet]
    /\ everPublished = [p \in Procs |-> FALSE]
    /\ attempt = [p \in Procs |-> NoAttempt]
    /\ lastRecv = [p \in Procs |-> None]
    /\ fatal = [p \in Procs |-> None]
    /\ edits = 0
    /\ ran = [p \in Procs |-> 0]
    /\ emitted = [p \in Procs |-> 0]
    /\ hadConflicts = [p \in Procs |-> FALSE]
    /\ readSince = [p \in Procs |-> FALSE]
    /\ announces = [p \in Procs |-> <<>>]

\* main has read the configuration and is about to start the two loops
Init ==
    /\ TestMode \in {t \in [Procs -> BOOLEAN] : \A p \in Procs \ {"alice"} : ~t[p]}
    /\ workdir = [p \in Procs |-> EmptyMapping]
    /\ store \in InitStores({"alice"})
    /\ faults = TRUE
    /\ InitLocal({"alice"})

-----------------------------------------------------------------------------
(* The developer *)

\* the working tree of p changes: the diff provider returns m from now on
EditWorkingTree(p) ==
    /\ alive[p]
    /\ edits < MaxEdits
    /\ edits' = edits + 1
    /\ \E m \in PollMappings :
          /\ m # workdir[p]
          /\ workdir' = [workdir EXCEPT ![p] = m]
    /\ UNCHANGED <<TestMode, store, queue, listenPc, pubPc, lastFileEdits,
                   fileEdits, alive, result, evaluated, notices, prevDiff,
                   everPublished, attempt, lastRecv, fatal, faults, ran, emitted,
                   hadConflicts, readSince, announces>>

\* a participant whose process is not one of the started ones publishes: its
\* sendAndNotifyChange writes some build of its diff under its key and notifies
PeerPublish(k) ==
    /\ pubPc[k] = "off"
    /\ \E p \in Procs : alive[p]
    /\ \E m \in PollMappings :
          \E fe \in BuildLocalFileEdits(m) :
             /\ ~(k \in DOMAIN store /\ store[k] = Marshal(fe))
             /\ store' = HSet(store, k, Marshal(fe))
    /\ \A q \in Subscribers : Len(queue[q]) < MaxQueue
    /\ queue' = Deliver(queue)
    /\ announces' = Announce(announces, None)
    /\ UNCHANGED <<TestMode, workdir, listenPc, pubPc, lastFileEdits,
                   fileEdits, alive, result, evaluated, notices, prevDiff,
                   everPublished, attempt, lastRecv, fatal, edits, faults, ran,
                   emitted, hadConflicts, readSince>>

-----------------------------------------------------------------------------
(* waitForLocalChanges *)

\* a panic or a log.Fatal in either goroutine ends the whole process: its
\* subscription is closed and the locals of the publish loop are gone
Panic(p, why) ==
    /\ alive' = [alive EXCEPT ![p] = FALSE]
    /\ fatal' = [fatal EXCEPT ![p] = why]
    /\ listenPc' = [listenPc EXCEPT ![p] = "fatal"]
    /\ queue' = [queue EXCEPT ![p] = <<>>]
    /\ announces' = [announces EXCEPT ![p] = <<>>]
    /\ pubPc' = [pubPc EXCEPT ![p] = "fatal"]
    /\ lastFileEdits' = [lastFileEdits EXCEPT ![p] = <<>>]
    /\ fileEdits' = [fileEdits EXCEPT ![p] = <<>>]

\* lines 479-487 and 383: build, compare with lastFileEdits and, when they
\* differ, marshal and HSet; the result of HSet is not looked at.  When the
\* diff provider returns an error, buildDiff or buildLocalFileEdits calls
\* log.Fatal, which ends the process.
BuildAndWrite(p) ==
    /\ alive[p]
    /\ pubPc[p] = "build"
    /\ \E diffOk \in Outcomes :
          IF diffOk
          THEN /\ prevDiff' = [prevDiff EXCEPT ![p] = workdir[p]]
               /\ \E fe \in BuildLocalFileEdits(workdir[p]) :
                     IF ~DeepEqual(lastFileEdits[p], fe)
                     THEN /\ \E hsetOk \in Outcomes :
                                /\ store' = IF hsetOk THEN HSet(store, p, Marshal(fe))
                                                      ELSE store
                                /\ attempt' = [attempt EXCEPT ![p] =
                                                  [hset |-> IF hsetOk THEN "ok" ELSE "failed",
                                                   publish |-> None]]
                                /\ readSince' = [readSince EXCEPT ![p] = @ /\ ~hsetOk]
                                /\ announces' = IF hsetOk THEN Written(announces, p)
                                                          ELSE announces
                          /\ fileEdits' = [fileEdits EXCEPT ![p] = fe]
                          /\ pubPc' = [pubPc EXCEPT ![p] = "notify"]
                          /\ everPublished' = [everPublished EXCEPT ![p] = TRUE]
                     ELSE UNCHANGED <<store, attempt, fileEdits, pubPc, everPublished,
                                      readSince, announces>>
               /\ UNCHANGED <<queue, listenPc, lastFileEdits, alive, fatal>>
          ELSE /\ prevDiff' = [prevDiff EXCEPT ![p] = DiffFailed]
               /\ Panic(p, "diff provider")
               /\ UNCHANGED <<store, attempt, everPublished, readSince>>
    /\ UNCHANGED <<TestMode, workdir, result, evaluated, notices, lastRecv, edits,
                   faults, ran, emitted, hadConflicts>>

\* lines 384 and 488-490: Publish, whose result is not looked at either, then
\* lastFileEdits = fileEdits and the sleep
Notify(p) ==
    /\ alive[p]
    /\ pubPc[p] = "notify"
    /\ \E publishOk \in Outcomes :
          /\ IF publishOk
             THEN /\ \A q \in Subscribers : Len(queue[q]) < MaxQueue
                  /\ queue' = Deliver(queue)
                  /\ announces' = Announce(announces,
                                           IF /\ p \in DOMAIN store
                                              /\ store[p] = Marshal(fileEdits[p])
                                           THEN None ELSE p)
             ELSE UNCHANGED <<queue, announces>>
          /\ attempt' = [attempt EXCEPT ![p].publish =
                            IF publishOk THEN "ok" ELSE "failed"]
    /\ lastFileEdits' = [lastFileEdits EXCEPT ![p] = fileEdits[p]]
    /\ fileEdits' = [fileEdits EXCEPT ![p] = <<>>]
    /\ pubPc' = [pubPc EXCEPT ![p] = "build"]
    /\ UNCHANGED <<TestMode, workdir, store, listenPc, alive, result, evaluated,
                   notices, prevDiff, everPublished, lastRecv, fatal, edits, faults,
                   ran, emitted, hadConflicts, readSince>>

-----------------------------------------------------------------------------
(* waitForServerChanges *)

\* lines 446-450
Subscribe(p) ==
    /\ alive[p]
    /\ listenPc[p] = "subscribe"
    /\ \E ok \in Outcomes :
          IF ok
          THEN /\ listenPc' = [listenPc EXCEPT ![p] = "receive"]
               /\ queue' = [queue EXCEPT ![p] = <<"subscription">>]
               /\ announces' = [announces EXCEPT ![p] = <<None>>]
               /\ UNCHANGED <<alive, fatal, pubPc, lastFileEdits, fileEdits>>
          ELSE Panic(p, "subscribe")
    /\ UNCHANGED <<TestMode, workdir, store, result, evaluated, notices,
                   prevDiff, everPublished, attempt, lastRecv, edits, faults, ran,
                   emitted, hadConflicts, readSince>>

\* the same with the panic of line 458 left out: a failed Ping is swallowed and
\* the loop goes back to Receive
AfterReceiveErrorSwallowed(pingOk) ==
    IF pingOk THEN "unknown message" ELSE "continue"

\* lines 455-460 and the switch of 462-471 when Receive returned (nil, err):
\* what the loop does next, given the result of pubsub.Ping.  After a Ping that
\* succeeded the code goes on to the type switch with msgi = nil, which none
\* of the three cases matches.
AfterReceiveError(pingOk) ==
    IF pingOk THEN "unknown message" ELSE "ping"

\* lines 453-460: Receive returns an error
ReceiveError(p) ==
    /\ alive[p]
    /\ listenPc[p] = "receive"
    /\ faults
    /\ \E pingOk \in BOOLEAN :
          /\ lastRecv' = [lastRecv EXCEPT ![p] =
                             IF pingOk THEN "error, ping ok" ELSE "error, ping failed"]
          /\ IF AfterReceiveError(pingOk) = "continue"
             THEN UNCHANGED <<alive, fatal, listenPc, queue, pubPc, lastFileEdits,
                              fileEdits, announces>>
             ELSE Panic(p, AfterReceiveError(pingOk))
    /\ ran' = [ran EXCEPT ![p] = 0]
    /\ emitted' = [emitted EXCEPT ![p] = 0]
    /\ UNCHANGED <<TestMode, workdir, store, result, evaluated, notices,
                   prevDiff, everPublished, attempt, edits, faults, hadConflicts,
                   readSince>>

\* the switch of lines 462-471 with every event evaluated except the
\* subscription confirmation
TriggersUnlessSubscription(event) ==
    event # "subscription"

\* the switch of lines 462-471: which event runs calculateConflicts and
\* outputConflicts (*redis.Message); *redis.Subscription does nothing and
\* *redis.Pong is printed
Triggers(event) ==
    event = "message"

\* outputConflicts: how many records it writes for the result of an evaluation
OutputConflicts(conflicts) ==
    1

\* lines 453 and 462-471: Receive returns the next event; a message runs
\* calculateConflicts (HGetAllMap, then buildLocalFileEdits, which ends the
\* process when the diff provider fails) and then outputConflicts
ReceiveEvent(p) ==
    /\ alive[p]
    /\ listenPc[p] = "receive"
    /\ queue[p] # <<>>
    /\ lastRecv' = [lastRecv EXCEPT ![p] = Head(queue[p])]
    /\ IF Triggers(Head(queue[p]))
       THEN \E hgetOk \in Outcomes, diffOk \in Outcomes :
               IF diffOk
               THEN /\ \E localFileEdits \in BuildLocalFileEdits(workdir[p]),
                          userOrder \in Perms(DOMAIN HGetAllMap(store, hgetOk)) :
                          result' = [result EXCEPT ![p] =
                                        CalculateConflicts(HGetAllMap(store, hgetOk),
                                                           localFileEdits, userOrder,
                                                           p, TestMode[p])]
                    /\ evaluated' = [evaluated EXCEPT ![p] = TRUE]
                    /\ ran' = [ran EXCEPT ![p] = 1]
                    /\ emitted' = [emitted EXCEPT ![p] = OutputConflicts(result'[p])]
                    /\ hadConflicts' = [hadConflicts EXCEPT ![p] = @ \/ result'[p] # <<>>]
                    /\ readSince' = [readSince EXCEPT ![p] = @ \/ hgetOk]
                    /\ queue' = [queue EXCEPT ![p] = Tail(queue[p])]
                    /\ announces' = [announces EXCEPT ![p] = Tail(announces[p])]
                    /\ UNCHANGED <<alive, fatal, listenPc, pubPc, lastFileEdits,
                                   fileEdits>>
               ELSE /\ Panic(p, "diff provider")
                    /\ ran' = [ran EXCEPT ![p] = 1]
                    /\ emitted' = [emitted EXCEPT ![p] = 0]
                    /\ UNCHANGED <<result, evaluated, hadConflicts, readSince>>
       ELSE /\ queue' = [queue EXCEPT ![p] = Tail(queue[p])]
            /\ announces' = [announces EXCEPT ![p] = Tail(announces[p])]
            /\ ran' = [ran EXCEPT ![p] = 0]
            /\ emitted' = [emitted EXCEPT ![p] = 0]
            /\ UNCHANGED <<result, evaluated, hadConflicts, readSince, alive, fatal,
                           listenPc, pubPc, lastFileEdits, fileEdits>>
    /\ UNCHANGED <<TestMode, workdir, store, notices, prevDiff, everPublished,
                   attempt, edits, faults>>

\* lines 197 and 206-214, the older body of the loop: a message runs
\* processAllDiffs (HGetAllMap, then buildLocalFileEdits, then the notices)
ReceiveEventOlder(p) ==
    /\ alive[p]
    /\ listenPc[p] = "receive"
    /\ queue[p] # <<>>
    /\ queue' = [queue EXCEPT ![p] = Tail(queue[p])]
    /\ announces' = [announces EXCEPT ![p] = Tail(announces[p])]
    /\ lastRecv' = [lastRecv EXCEPT ![p] = Head(queue[p])]
    /\ IF Head(queue[p]) = "message"
       THEN \E localFileEdits \in BuildLocalFileEdits(workdir[p]),
               userOrder \in Perms(DOMAIN store) :
               notices' = [notices EXCEPT ![p] =
                              ProcessAllDiffs(store, localFileEdits, userOrder, p)]
       ELSE UNCHANGED notices
    /\ UNCHANGED <<TestMode, workdir, store, listenPc, pubPc, lastFileEdits,
                   fileEdits, alive, result, evaluated, prevDiff, everPublished,
                   attempt, fatal, edits, faults, ran, emitted, hadConflicts,
                   readSince>>

-----------------------------------------------------------------------------
(* The program *)

Next ==
    \E p \in Procs :
        \/ EditWorkingTree(p)
        \/ PeerPublish(p)
        \/ BuildAndWrite(p)
        \/ Notify(p)
        \/ Subscribe(p)
        \/ ReceiveError(p)
        \/ ReceiveEvent(p)

Spec == Init /\ [][Next]_vars

-----------------------------------------------------------------------------
(* One evaluation of every shared state: the listener of alice has a message *)
(* waiting, the hash holds what peers may have stored                        *)

\* the peer entry of the scenario: {a.txt: [7,9], b.txt: [1]}
ScenarioBob ==
    Marshal(<<FileEdit("a.txt", <<7, 9>>, ""), FileEdit("b.txt", <<1>>, "")>>)

\* valid JSON of the wrong shape: [{"filename":"a.txt","lineNumbers":[3,"x"]}]
TypeMismatch ==
    [valid |-> TRUE,
     elems |-> <<[filename |-> "a.txt", lineNumbers |-> <<Num(3), Str>>, user |-> ""]>>]

\* what a running peer may have published
PeerValues ==
    {Marshal(fe) : fe \in UNION {BuildLocalFileEdits(m) : m \in Mappings}}
        \cup {ScenarioBob}

\* what the key of a participant that no longer runs may hold
StaleKeyValues ==
    {Garbage, TypeMismatch, Marshal(<<FileEdit("a.txt", <<7, 3>>, "")>>)}

\* marks a key that is not in the hash
Absent ==
    [valid |-> FALSE,
     elems |-> <<[filename |-> "", lineNumbers |-> <<>>, user |-> "absent"]>>]

\* the hash that holds vals[k] under every key k with a value
StoreOf(vals) ==
    [k \in {k \in Keys : vals[k] # Absent} |-> vals[k]]

\* the hashes alice may find when her diff is m: bob has published; her own key
\* is not there or holds a build of m; the key of carol is not there or stale
EvalStores(m) ==
    {StoreOf([k \in Keys |-> CASE k = "alice" -> a [] k = "bob" -> b [] OTHER -> c]) :
        a \in {Absent} \cup {Marshal(fe) : fe \in BuildLocalFileEdits(m)},
        b \in PeerValues,
        c \in {Absent} \cup StaleKeyValues}

EvalInit ==
    /\ TestMode \in {t \in [Procs -> BOOLEAN] : \A p \in Procs \ {"alice"} : ~t[p]}
    /\ \E m \in Mappings :
          /\ workdir = [p \in Procs |-> IF p = "alice" THEN m ELSE EmptyMapping]
          /\ store \in EvalStores(m)
    /\ queue = [p \in Procs |-> IF p = "alice" THEN <<"message">> ELSE <<>>]
    /\ listenPc = [p \in Procs |-> IF p = "alice" THEN "receive" ELSE "off"]
    /\ pubPc = [p \in Procs |-> IF p = "alice" THEN "build" ELSE "off"]
    /\ lastFileEdits = [p \in Procs |-> <<>>]
    /\ fileEdits = [p \in Procs |-> <<>>]
    /\ alive = [p \in Procs |-> p = "alice"]
    /\ result = [p \in Procs |-> <<>>]
    /\ evaluated = [p \in Procs |-> FALSE]
    /\ notices = [p \in Procs |-> <<>>]
    /\ prevDiff = [p \in Procs |-> NoDiffYet]
    /\ everPublished = [p \in Procs |-> FALSE]
    /\ attempt = [p \in Procs |-> NoAttempt]
    /\ lastRecv = [p \in Procs |-> None]
    /\ fatal = [p \in Procs |-> None]
    /\ edits = 0
    /\ faults = FALSE
    /\ ran = [p \in Procs |-> 0]
    /\ emitted = [p \in Procs |-> 0]
    /\ hadConflicts = [p \in Procs |-> FALSE]
    /\ readSince = [p \in Procs |-> FALSE]
    /\ announces = [p \in Procs |-> [i \in DOMAIN queue[p] |-> None]]

EvalNext ==
    \E p \in Procs :
        \/ ReceiveEvent(p)
        \/ ReceiveEventOlder(p)

SpecEval == EvalInit /\ [][EvalNext]_vars


-----------------------------------------------------------------------------
(* The listen loop of alice with a backlog of events on her subscription,  *)
(* while bob publishes; redis and the diff provider do not fail            *)

\* longest backlog alice starts with
MaxBurst == 3

\* what pubsub.Receive returns without an error: *redis.Subscription,
\* *redis.Message, *redis.Pong
Events == {"subscription", "message", "pong"}

Bursts == UNION {[1..n -> Events] : n \in 1..MaxBurst}

ListenInit ==
    /\ TestMode = [p \in Procs |-> FALSE]
    /\ \E m \in PollMappings :
          workdir = [p \in Procs |-> IF p = "alice" THEN m ELSE EmptyMapping]
    /\ store \in {<<>>} \cup {[k \in {"bob"} |-> Marshal(fe)] :
                                fe \in UNION {BuildLocalFileEdits(m) : m \in PollMappings}}
    /\ queue \in {[p \in Procs |-> IF p = "alice" THEN b ELSE <<>>] : b \in Bursts}
    /\ listenPc = [p \in Procs |-> IF p = "alice" THEN "receive" ELSE "off"]
    /\ pubPc = [p \in Procs |-> IF p = "alice" THEN "build" ELSE "off"]
    /\ lastFileEdits = [p \in Procs |-> <<>>]
    /\ fileEdits = [p \in Procs |-> <<>>]
    /\ alive = [p \in Procs |-> p = "alice"]
    /\ result = [p \in Procs |-> <<>>]
    /\ evaluated = [p \in Procs |-> FALSE]
    /\ notices = [p \in Procs |-> <<>>]
    /\ prevDiff = [p \in Procs |-> NoDiffYet]
    /\ everPublished = [p \in Procs |-> FALSE]
    /\ attempt = [p \in Procs |-> NoAttempt]
    /\ lastRecv = [p \in Procs |-> None]
    /\ fatal = [p \in Procs |-> None]
    /\ edits = 0
    /\ faults = FALSE
    /\ ran = [p \in Procs |-> 0]
    /\ emitted = [p \in Procs |-> 0]
    /\ hadConflicts = [p \in Procs |-> FALSE]
    /\ readSince = [p \in Procs |-> FALSE]
    /\ announces = [p \in Procs |-> [i \in DOMAIN queue[p] |-> None]]

ListenNext ==
    \E p \in Procs :
        \/ ReceiveEvent(p)
        \/ PeerPublish(p)

SpecListen == ListenInit /\ [][ListenNext]_vars

-----------------------------------------------------------------------------
(* A settled state: alice and bob have both published their diffs, nothing *)
(* fails, and a notification is waiting at each listener                   *)

SettledInit ==
    /\ TestMode = [p \in Procs |-> FALSE]
    /\ workdir \in [Procs -> Mappings]
    /\ lastFileEdits \in {fes \in [Procs -> UNION {BuildLocalFileEdits(m) : m \in Mappings}] :
                             \A p \in Procs : fes[p] \in BuildLocalFileEdits(workdir[p])}
    /\ store = [p \in Procs |-> Marshal(lastFileEdits[p])]
    /\ queue = [p \in Procs |-> <<"message">>]
    /\ announces = [p \in Procs |-> <<None>>]
    /\ listenPc = [p \in Procs |-> "receive"]
    /\ pubPc = [p \in Procs |-> "build"]
    /\ fileEdits = [p \in Procs |-> <<>>]
    /\ alive = [p \in Procs |-> TRUE]
    /\ result = [p \in Procs |-> <<>>]
    /\ evaluated = [p \in Procs |-> FALSE]
    /\ notices = [p \in Procs |-> <<>>]
    /\ prevDiff = workdir
    /\ everPublished = [p \in Procs |-> TRUE]
    /\ attempt = [p \in Procs |-> [hset |-> "ok", publish |-> "ok"]]
    /\ lastRecv = [p \in Procs |-> "subscription"]
    /\ fatal = [p \in Procs |-> None]
    /\ edits = 0
    /\ faults = FALSE
    /\ ran = [p \in Procs |-> 0]
    /\ emitted = [p \in Procs |-> 0]
    /\ hadConflicts = [p \in Procs |-> FALSE]
    /\ readSince = [p \in Procs |-> FALSE]

SettledNext ==
    \E p \in Procs : ReceiveEvent(p)

SpecSettled == SettledInit /\ [][SettledNext]_vars

-----------------------------------------------------------------------------
(* Two participants, both running the program, redis and the diff provider *)
(* never failing, both loops of each process scheduled fairly               *)

PairInit ==
    /\ TestMode = [p \in Procs |-> FALSE]
    /\ workdir = [p \in Procs |-> EmptyMapping]
    /\ store \in InitStores(Procs)
    /\ faults = FALSE
    /\ InitLocal(Procs)

PairNext ==
    \E p \in Procs :
        \/ EditWorkingTree(p)
        \/ BuildAndWrite(p)
        \/ Notify(p)
        \/ Subscribe(p)
        \/ ReceiveEvent(p)

\* main starts waitForServerChanges as a goroutine and runs waitForLocalChanges
\* itself: the Go scheduler lets each of them take its next step
SpecPair ==
    /\ PairInit
    /\ [][PairNext]_vars
    /\ \A p \in Procs :
          /\ WF_vars(BuildAndWrite(p))
          /\ WF_vars(Notify(p))
          /\ WF_vars(Subscribe(p))
          /\ WF_vars(ReceiveEvent(p))

-----------------------------------------------------------------------------
(* Properties *)

\* what the hash holds under key k, decoded as calculateConflicts decodes it
Decoded(k) == Unmarshal(store[k]).val

\* the lines the entry of k lists for file f
PeerLines(k, f) ==
    UNION {Range(Decoded(k)[i].LineNumbers) :
              i \in {j \in DOMAIN Decoded(k) : Decoded(k)[j].Filename = f}}

\* how many records of res report peer u, file f and line l
RecordsFor(res, u, f, l) ==
    Cardinality({i \in DOMAIN res :
                    /\ res[i].User = u
                    /\ res[i].Filename = f
                    /\ l \in Range(res[i].LineNumbers)})

\* how many records of res report peer u and file f
RecordsOf(res, u, f) ==
    Cardinality({i \in DOMAIN res : res[i].User = u /\ res[i].Filename = f})

\* the (file, line) pairs of a []FileEdit
Entries(fes) ==
    UNION {{<<fes[i].Filename, l>> : l \in Range(fes[i].LineNumbers)} : i \in DOMAIN fes}

\* C1: after an evaluation by p, for every other key k of the hash, every file
\* f and every line l that both the local diff and the entry of k list for f,
\* the result holds exactly one record for (k, f, l).
C1_ExactlyOneRecordPerTriple ==
    \A p \in Procs :
        evaluated[p] =>
            \A k \in (DOMAIN store) \ {p} : \A f \in Files :
                \A l \in workdir[p][f] \cap PeerLines(k, f) :
                    RecordsFor(result[p], k, f, l) = 1

\* the local edits of the scenario: {a.txt: [3,7]}
ScenarioLocal == [f \in Files |-> IF f = "a.txt" THEN {3, 7} ELSE {}]

\* C2: every record of an evaluation result reports a peer of the hash, a file
\* and only lines that are both in the local diff and in that peer's entry for
\* the file; in the scenario (local {a.txt: [3,7]}, bob {a.txt: [7,9], b.txt:
\* [1]}, no other peer) the result is the one record (bob, a.txt, 7).
C2_RecordsReportCommonLines ==
    \A p \in Procs :
        evaluated[p] =>
            /\ \A i \in DOMAIN result[p] :
                  /\ result[p][i].User \in DOMAIN store
                  /\ \A l \in Range(result[p][i].LineNumbers) :
                        /\ l \in workdir[p][result[p][i].Filename]
                        /\ l \in PeerLines(result[p][i].User, result[p][i].Filename)
            /\ ( /\ workdir[p] = ScenarioLocal
                 /\ ~TestMode[p]
                 /\ (DOMAIN store) \ {p} = {"bob"}
                 /\ store["bob"] = ScenarioBob )
               => /\ Len(result[p]) = 1
                  /\ result[p][1].User = "bob"
                  /\ result[p][1].Filename = "a.txt"
                  /\ Range(result[p][1].LineNumbers) = {7}

\* C3: with test mode off, no record of a result of p has p itself as peer.
C3_SelfExclusion ==
    \A p \in Procs :
        ~TestMode[p] => \A i \in DOMAIN result[p] : result[p][i].User # p

\* p has evaluated with test mode off, found a conflict, and the hash holds
\* under p's own key a build of p's own non-empty diff
C3_Witness ==
    \E p \in Procs :
        /\ ~TestMode[p]
        /\ evaluated[p]
        /\ lastRecv[p] = "message"
        /\ result[p] # <<>>
        /\ workdir[p] # EmptyMapping
        /\ p \in DOMAIN store
        /\ store[p] \in {Marshal(fe) : fe \in BuildLocalFileEdits(workdir[p])}

\* C4: once a cycle of the publish loop of p has built the zero-entry edit-set
\* and the loop is back at its top, p has published and the zero-entry edit-set
\* is what it published last; when the write and the broadcast of that publish
\* succeeded, the hash holds the zero-entry edit-set under p's key.
C4_ZeroEntrySetPublished ==
    \A p \in Procs :
        (alive[p] /\ pubPc[p] = "build" /\ prevDiff[p] = EmptyMapping) =>
            /\ everPublished[p]
            /\ lastFileEdits[p] = <<>>
            /\ (attempt[p].hset = "ok" /\ attempt[p].publish = "ok") =>
                  (p \in DOMAIN store /\ store[p] = Marshal(<<>>))

\* C5: a publish attempt whose HSet or Publish failed leaves lastFileEdits as
\* it was, and lastFileEdits changes only with an attempt whose HSet and
\* Publish both succeeded.
C5_FailedPublishKeepsLast ==
    [][\A p \in Procs :
          /\ ( /\ pubPc[p] = "notify"
               /\ pubPc'[p] = "build"
               /\ (attempt'[p].hset = "failed" \/ attempt'[p].publish = "failed") )
             => lastFileEdits'[p] = lastFileEdits[p]
          /\ (alive'[p] /\ lastFileEdits'[p] # lastFileEdits[p])
             => (attempt'[p].hset = "ok" /\ attempt'[p].publish = "ok")]_vars

\* C6: a cycle of the publish loop that finds the diff the previous cycle found
\* publishes nothing (it does not go on to HSet and Publish).
C6_UnchangedDiffNotRepublished ==
    [][\A p \in Procs :
          (pubPc[p] = "build" /\ prevDiff[p] = workdir[p]) => pubPc'[p] # "notify"]_vars

\* C7: the detector reports "changed" (the loop goes on to publish) only for
\* two edit-sets that differ in their files or in the lines of a file.
C7_DetectorIgnoresOrder ==
    \A p \in Procs :
        pubPc[p] = "notify" => Entries(lastFileEdits[p]) # Entries(fileEdits[p])

\* the hash without key k
Without(st, k) == [j \in (DOMAIN st) \ {k} |-> st[j]]

\* C8: after an evaluation by p, for every key k whose value json.Unmarshal
\* rejects, the result holds no record with peer k, and for every other peer
\* and file as many records as an evaluation of the hash without k.
C8_MalformedPeerIsolated ==
    \A p \in Procs :
        evaluated[p] =>
            \A k \in DOMAIN store :
                Unmarshal(store[k]).err =>
                    /\ \A i \in DOMAIN result[p] : result[p][i].User # k
                    /\ LET rest == Without(store, k)
                           res == CalculateConflicts(
                                      rest,
                                      CHOOSE fe \in BuildLocalFileEdits(workdir[p]) : TRUE,
                                      CHOOSE o \in Perms(DOMAIN rest) : TRUE,
                                      p, TestMode[p])
                       IN  \A u \in Keys \ {k} : \A f \in Files :
                               RecordsOf(result[p], u, f) = RecordsOf(res, u, f)

\* C9: after a Receive that returned an error and a Ping that succeeded, the
\* process is alive and its listener is back at Receive.
C9_TransientErrorRecovered ==
    \A p \in Procs :
        lastRecv[p] = "error, ping ok" => (alive[p] /\ listenPc[p] = "receive")

\* C10: after a Receive that returned an error and a Ping that failed, the
\* process has been ended by the panic of line 458 and no longer listens.
C10_FailedProbeIsFatal ==
    \A p \in Procs :
        lastRecv[p] = "error, ping failed" =>
            (~alive[p] /\ listenPc[p] = "fatal" /\ fatal[p] = "ping")

\* the listener of a process that had evaluated got an error from Receive and
\* then from Ping
C10_Witness ==
    \E p \in Procs :
        /\ lastRecv[p] = "error, ping failed"
        /\ evaluated[p]
        /\ ~alive[p]

\* no step of the program changes the state any more: every running process
\* has its listener blocked in Receive with nothing to receive, and its publish
\* loop finds in every cycle the diff it published last
Quiescent ==
    \A p \in Procs :
        alive[p] =>
            /\ listenPc[p] = "receive"
            /\ queue[p] = <<>>
            /\ pubPc[p] = "build"
            /\ prevDiff[p] = workdir[p]
            /\ BuildLocalFileEdits(workdir[p]) = {lastFileEdits[p]}

\* the (peer, file, line) triples on which the diff of p overlaps the diff of
\* another running participant
Overlaps(p) ==
    {<<q, f, l>> : q \in {r \in Procs \ {p} : alive[r]}, f \in Files, l \in Lines}
        \cap {t \in Procs \X Files \X Lines :
                 t[3] \in workdir[p][t[2]] \cap workdir[t[1]][t[2]]}

\* the (peer, file, line) triples the last report of p lists
Reported(p) ==
    UNION {{<<result[p][i].User, result[p][i].Filename, l>> :
               l \in Range(result[p][i].LineNumbers)} : i \in DOMAIN result[p]}

\* C11: once the diffs have stopped changing and the program has nothing left
\* to do, the last report of every running participant that has reported lists
\* exactly the overlaps of its diff with the diffs of the other running
\* participants.
C11_ConvergesToOverlaps ==
    Quiescent =>
        \A p \in Procs :
            (alive[p] /\ evaluated[p]) => Reported(p) = Overlaps(p)

\* the step is an iteration of the listen loop of p that takes a message and
\* runs calculateConflicts to its end
Evaluates(p) ==
    /\ alive[p]
    /\ listenPc[p] = "receive"
    /\ queue[p] # <<>>
    /\ Head(queue[p]) = "message"
    /\ queue'[p] = Tail(queue[p])
    /\ alive'[p]

\* C12: after an evaluation of p has found conflicts, the first evaluation
\* with an empty result writes exactly one record, and every evaluation with
\* an empty result that directly follows an evaluation with an empty result
\* writes none.
C12_RedundantEmptySuppressed ==
    [][\A p \in Procs :
          (Evaluates(p) /\ hadConflicts[p] /\ result'[p] = <<>>) =>
              /\ result[p] # <<>> => emitted'[p] = 1
              /\ result[p] = <<>> => emitted'[p] = 0]_vars

\* C13: a cycle of the publish loop of p in which the diff provider returns an
\* error writes nothing to the hash and notifies nobody, leaves lastFileEdits
\* as it was, and leaves the process running with its publish loop at the top
\* of the next cycle.
C13_DiffErrorEndsOnlyTheCycle ==
    [][\A p \in Procs :
          (alive[p] /\ pubPc[p] = "build" /\ prevDiff'[p] = DiffFailed) =>
              /\ store' = store
              /\ \A q \in Procs \ {p} : queue'[q] = queue[q]
              /\ lastFileEdits'[p] = lastFileEdits[p]
              /\ alive'[p]
              /\ pubPc'[p] = "build"]_vars

\* the step is an iteration of the listen loop of p that takes the first
\* waiting event and does not end the process
Consumes(p) ==
    /\ alive[p]
    /\ listenPc[p] = "receive"
    /\ queue[p] # <<>>
    /\ queue'[p] = Tail(queue[p])
    /\ alive'[p]

\* C14: every iteration of the listen loop takes the event that arrived first;
\* for a message it runs calculateConflicts once and writes one record, for a
\* subscription confirmation or a pong it runs no evaluation and writes no
\* record; and a result or a record appears only in such an iteration.
C14_OneEvaluationPerMessage ==
    [][\A p \in Procs :
          /\ Consumes(p) =>
                /\ lastRecv'[p] = Head(queue[p])
                /\ IF Head(queue[p]) = "message"
                   THEN ran'[p] = 1 /\ emitted'[p] = 1 /\ evaluated'[p]
                   ELSE /\ ran'[p] = 0 /\ emitted'[p] = 0
                        /\ result'[p] = result[p] /\ evaluated'[p] = evaluated[p]
          /\ ( /\ alive'[p]
               /\ \/ ran'[p] # ran[p]
                  \/ emitted'[p] # emitted[p]
                  \/ result'[p] # result[p]
                  \/ evaluated'[p] # evaluated[p] )
             => Consumes(p)]_vars

\* the listener of p has evaluated, has then taken a pong without evaluating,
\* and still has events waiting
C14_Witness ==
    \E p \in Procs :
        /\ evaluated[p]
        /\ emitted[p] = 0
        /\ lastRecv[p] = "pong"
        /\ queue[p] # <<>>

\* the sequence lists its numbers in ascending order
Ascending(seq) ==
    \A i, j \in DOMAIN seq : i < j => seq[i] < seq[j]

\* C15: every []FileEdit the publish loop has built from the diff (the one it
\* is publishing and the one it published last) lists the lines of each file
\* in ascending order.
C15_BuiltLinesAscending ==
    \A p \in Procs :
        /\ \A i \in DOMAIN fileEdits[p] : Ascending(fileEdits[p][i].LineNumbers)
        /\ \A i \in DOMAIN lastFileEdits[p] : Ascending(lastFileEdits[p][i].LineNumbers)

\* C16: no step removes a key from the hash, and a step that adds a key k or
\* changes the value at k is the HSet of the publish loop of participant k
\* itself, writing the edits it has just built (for a participant whose process
\* runs elsewhere: its own publish).
C16_WritesOnlyOwnKey ==
    [][/\ \A k \in DOMAIN store : k \in DOMAIN store'
       /\ \A k \in DOMAIN store' :
             (k \notin DOMAIN store \/ store'[k] # store[k]) =>
                 \/ /\ alive[k]
                    /\ pubPc[k] = "build"
                    /\ pubPc'[k] = "notify"
                    /\ store'[k] = Marshal(fileEdits'[k])
                 \/ /\ k \in Procs
                    /\ pubPc[k] = "off"
                    /\ \A j \in (DOMAIN store') \ {k} :
                          j \in DOMAIN store /\ store'[j] = store[j]]_vars

\* the hash holds what p wrote over the entry of its earlier run next to the
\* entry of a peer, p has evaluated, and its process has ended since
C16_Witness ==
    \E p \in Procs : \E k \in Procs \ {p} :
        /\ ~alive[p]
        /\ evaluated[p]
        /\ attempt[p].hset = "ok"
        /\ p \in DOMAIN store
        /\ store[p] \notin StaleValues
        /\ k \in DOMAIN store

\* no file has a line that is both in the diff of p and in the entry of one
\* of the keys ks
NoCommonLine(p, ks) ==
    \A k \in ks : \A f \in Files : workdir[p][f] \cap PeerLines(k, f) = {}

\* C17 as stated: after an evaluation by p, when no file has a line common to
\* the diff of p and the entry of another participant, the result is empty
\* and the process runs on.
C17_EmptyWhenNoPeerOverlap ==
    \A p \in Procs :
        (evaluated[p] /\ NoCommonLine(p, (DOMAIN store) \ {p})) =>
            (result[p] = <<>> /\ alive[p])

\* the keys calculateConflicts compares p with: every other key and, in test
\* mode, the key of p
ComparedKeys(p) ==
    IF TestMode[p] THEN DOMAIN store ELSE (DOMAIN store) \ {p}

\* C17 amended: after an evaluation by p, when no file has a line common to
\* the diff of p and the entry of a key p is compared with (in test mode this
\* includes p's own key), the result is empty and the process runs on; so it
\* is when the diff of p is empty, and when the entries share files with the
\* diff but no line.
C17_EmptyWhenNoComparedOverlap ==
    \A p \in Procs :
        (evaluated[p] /\ NoCommonLine(p, ComparedKeys(p))) =>
            (result[p] = <<>> /\ alive[p])

\* p has evaluated with a non-empty diff against a peer whose entry lists the
\* same file with other lines only
C17_Witness ==
    \E p \in Procs : \E k \in (DOMAIN store) \ {p} : \E f \in Files :
        /\ evaluated[p]
        /\ NoCommonLine(p, ComparedKeys(p))
        /\ workdir[p][f] # {}
        /\ PeerLines(k, f) # {}
        /\ result[p] = <<>>

\* C18: the notification that triggers an evaluation announces a write that
\* is in the hash when the evaluation reads it: at the key of the publisher the
\* evaluation finds what that publish wrote or what a later publish of the same
\* participant wrote.
C18_WriteBeforeBroadcast ==
    [][\A q \in Procs : Evaluates(q) => Head(announces[q]) = None]_vars

\* C19: once the program has nothing left to do, every running participant
\* that has published has run an evaluation that read the hash after its last
\* write.
C19_WokenByOwnPublish ==
    Quiescent =>
        \A p \in Procs : (alive[p] /\ everPublished[p]) => readSince[p]

\* the hash holds under the key of p a build of the diff of p
Settled(p) ==
    /\ p \in DOMAIN store
    /\ store[p] \in {Marshal(fe) : fe \in BuildLocalFileEdits(workdir[p])}

\* the last result of p holds a record that reports peer q, file f and line l
Reports(p, q, f, l) ==
    \E i \in DOMAIN result[p] :
        /\ result[p][i].User = q
        /\ result[p][i].Filename = f
        /\ l \in Range(result[p][i].LineNumbers)

\* C20: when a and b, both with test mode off, have evaluated a hash that
\* holds under each one's key a build of its own diff, a reports a conflict
\* with b on file f and line l exactly if b reports one with a on f and l.
C20_ConflictsSymmetric ==
    \A a \in Procs : \A b \in Procs \ {a} :
        ( /\ ~TestMode[a] /\ ~TestMode[b]
          /\ Settled(a) /\ Settled(b)
          /\ evaluated[a] /\ evaluated[b] )
        => \A f \in Files : \A l \in Lines :
              Reports(a, b, f, l) <=> Reports(b, a, f, l)

====
